---------------------------- MODULE Spec2Model ----------------------------
(***************************************************************************)
(* Model of the solar appliance scheduler (scheduler.py) and of the solar  *)
(* output estimator (solar_calculator.py).                                 *)
(*                                                                         *)
(* Numbers.  Python floats are modelled by exact arithmetic: powers and    *)
(* production outputs are whole kW, a duration is a whole number of half   *)
(* hours (dur2 = 2 * duration), and every quotient the code forms is kept  *)
(* as a normalised fraction [n, d].  IEEE rounding is outside the model.   *)
(* A datetime is the number of minutes since midnight of the day of the    *)
(* production schedule.                                                    *)
(***************************************************************************)
EXTENDS Integers, Sequences, FiniteSets, TLC

VARIABLES
    appliances,           \* ApplianceScheduler.appliances
    production_schedule,  \* the argument of optimize_schedule
    pc,                   \* position of the call: idle, loop, returned, raised, summarized,
                          \* advised
    sorted_appliances,    \* local of optimize_schedule
    idx,                  \* position of the for loop in sorted_appliances
    used_slots,           \* local of optimize_schedule: datetime -> committed kW
    schedule,             \* local of optimize_schedule, then its return value
    raised,               \* the exception that left optimize_schedule, or "none"
    summary,              \* result of get_schedule_summary, or NoSummary
    weather,              \* WeatherData passed to calculate_solar_output
    config,               \* SolarCalculator.config
    spc,                  \* position of the solar calculation
    output,               \* result of calculate_solar_output (W), or NoOutput
    weather_forecast,     \* the argument of calculate_daily_production
    daily_results,        \* what the calls of calculate_daily_production returned
    min_power,            \* argument of get_optimal_time_windows (kW)
    duration_hours,       \* argument of get_optimal_time_windows, in half hours
    optimal_windows,      \* result of get_optimal_time_windows
    categories,           \* result of get_production_categories
    recommendations,      \* result of recommend_deferrals
    results,              \* what the calls of optimize_schedule returned
    optimizer_config,     \* st.session_state.optimizer_config of the Streamlit app
    score_call            \* a call of _calculate_slot_score and its result

vars == <<appliances, production_schedule, pc, sorted_appliances, idx,
          used_slots, schedule, raised, summary, weather, config, spc, output,
          weather_forecast, daily_results, min_power, duration_hours,
          optimal_windows, categories, recommendations, score_call, results,
          optimizer_config>>

schedVars == <<appliances, production_schedule, pc, sorted_appliances, idx,
               used_slots, schedule, raised, summary, recommendations,
               score_call, results>>

solarVars == <<weather, config, spc, output, weather_forecast, daily_results,
               min_power, duration_hours, optimal_windows, categories>>

editorVars == <<optimizer_config>>

-----------------------------------------------------------------------------
(* Bounds of the model *)

MaxAppliances == 2

MaxLen == 3

\* the longest appliance list of the Streamlit editor
MaxEditorLen == 5

(* Values the inputs are drawn from *)

\* power_rating in kW: 0 (no energy), 4 + 6 = 10 (exactly the ceiling), 12 (above it)
Powers == {0, 4, 6, 12}

\* duration in half hours: 0.5 h (truncates to 0 slots), 1 h, 2.5 h (2 slots)
DurHalves == {1, 2, 5}

Flexibilities == {3, 8}

\* Priority.LOW, Priority.MEDIUM, Priority.HIGH
Priorities == {1, 2, 3}

\* production output in kW: below the base load, and well above it
Outputs == {1, 9}

\* minutes between two production points: hourly, and the quarter hours of
\* daily_simulation.py
Spacings == {60, 15}

\* the first production point is at 09:00
StartMinutes == {540}

-----------------------------------------------------------------------------
(* Exact fractions for the float quotients of the code *)

RECURSIVE GCD(_, _)
GCD(a, b) == IF b = 0 THEN a ELSE GCD(b, a % b)

Abs(x) == IF x < 0 THEN -x ELSE x

\* the float n / d, d # 0
Frac(n, d) ==
    LET g == GCD(Abs(n), Abs(d))
        s == IF d < 0 THEN -1 ELSE 1
    IN [n |-> (s * n) \div g, d |-> (s * d) \div g]

FInt(k) == [n |-> k, d |-> 1]

FAdd(x, y) == Frac(x.n * y.d + y.n * x.d, x.d * y.d)

FMul(x, y) == Frac(x.n * y.n, x.d * y.d)

FDiv(x, y) == Frac(x.n * y.d, x.d * y.n)

FLess(x, y) == x.n * y.d < y.n * x.d

FLeq(x, y) == x.n * y.d <= y.n * x.d

FMin(x, y) == IF FLess(y, x) THEN y ELSE x

Min(a, b) == IF b < a THEN b ELSE a

Max(a, b) == IF b > a THEN b ELSE a

-----------------------------------------------------------------------------
(* scheduler.py: data *)

\* ApplianceScheduler.base_load, the default of __init__
BaseLoad == 2

\* the ceiling of _is_slot_available
SlotCapacity == 10

\* ApplianceScheduler.electricity_rate = 0.12
ElectricityRate == Frac(12, 100)

\* an Appliance without its name
ApplianceFields ==
    [power_rating : Powers, dur2 : DurHalves,
     flexibility : Flexibilities, priority : Priorities]

\* an Appliance; the name is the position in the list the scheduler was built with
Appliance(k, f) ==
    [name |-> k, power_rating |-> f.power_rating, dur2 |-> f.dur2,
     flexibility |-> f.flexibility, priority |-> f.priority]

ApplianceLists ==
    UNION {{[k \in 1..n |-> Appliance(k, f[k])] : f \in [1..n -> ApplianceFields]}
           : n \in 0..MaxAppliances}

\* a production schedule: points (timestamp, output_kW), ascending, evenly spaced
ProductionSchedules ==
    UNION {{[k \in 1..n |-> [ts |-> st + (k - 1) * sp, out |-> o[k]]]
            : o \in [1..n -> Outputs], sp \in Spacings, st \in StartMinutes}
           : n \in 0..MaxLen}

EmptyMap == [t \in {} |-> 0]

\* datetime.hour
HourOf(t) == (t \div 60) % 24

\* Duration truncated to whole hours
DurationTruncated(a) == Frac(a.dur2 \div 2, 1)

\* appliance.duration as a fraction of hours
Duration(a) == Frac(a.dur2, 2)

\* int(appliance.duration)
DurationSlots(a) == a.dur2 \div 2

-----------------------------------------------------------------------------
(* optimize_schedule: the sort *)

\* KeyLess for the key (priority.value, flexibility): the minus sign forgotten
KeyLessPlainFlexibility(a, b) ==
    \/ a.priority < b.priority
    \/ a.priority = b.priority /\ a.flexibility < b.flexibility

\* key(a) < key(b) for key = (priority.value, -flexibility), tuples compared
\* lexicographically
KeyLess(a, b) ==
    \/ a.priority < b.priority
    \/ a.priority = b.priority /\ -a.flexibility < -b.flexibility

\* InsertDescending that puts x before the elements of its own key
RECURSIVE InsertDescendingBeforeEqual(_, _)
InsertDescendingBeforeEqual(x, s) ==
    IF s = <<>> THEN <<x>>
    ELSE IF ~KeyLess(x, Head(s)) THEN <<x>> \o s
    ELSE <<Head(s)>> \o InsertDescendingBeforeEqual(x, Tail(s))

\* x put into a list that is descending by key, behind the elements whose key
\* is not smaller: equal keys keep their order
RECURSIVE InsertDescending(_, _)
InsertDescending(x, s) ==
    IF s = <<>> THEN <<x>>
    ELSE IF KeyLess(Head(s), x) THEN <<x>> \o s
    ELSE <<Head(s)>> \o InsertDescending(x, Tail(s))

\* SortedReverse that leaves the list as it is
Unsorted(s) == s

\* sorted(appliances, key=..., reverse=True): descending by key and stable
RECURSIVE SortedReverse(_)
SortedReverse(s) ==
    IF s = <<>> THEN <<>>
    ELSE InsertDescending(s[Len(s)], SortedReverse(SubSeq(s, 1, Len(s) - 1)))

-----------------------------------------------------------------------------
(* _is_slot_available *)

IsSlotAvailable(start_time, duration, used, power_needed) ==
    \A k \in 0..(duration - 1) :
        LET current_time == start_time + 60 * k
        IN current_time \in DOMAIN used
              => ~(used[current_time] + power_needed > SlotCapacity)

-----------------------------------------------------------------------------
(* the slots of a window, shared by _calculate_slot_score and                *)
(* _create_schedule_item                                                     *)

\* for i, (timestamp, production) in enumerate(production_schedule):
\*     if timestamp == start_time: ...; break
\* the index (1-based) of the first point at start_time, looking from k on;
\* 0 if there is none
RECURSIVE FirstIndexFrom(_, _, _)
FirstIndexFrom(prod, start_time, k) ==
    IF k > Len(prod) THEN 0
    ELSE IF prod[k].ts = start_time THEN k
    ELSE FirstIndexFrom(prod, start_time, k + 1)

FirstIndexAt(prod, start_time) == FirstIndexFrom(prod, start_time, 1)

\* used_slots.get(current_time, 0)
UsedPower(used, t) == IF t \in DOMAIN used THEN used[t] ELSE 0

\* AvailableSolar without the clamp at 0
AvailableSolarUnclamped(prod, used, i, j, start_time) ==
    prod[i + j].out - BaseLoad - UsedPower(used, start_time + 60 * j)

\* AvailableSolar that leaves the committed power out
AvailableSolarIgnoringUsed(prod, used, i, j, start_time) ==
    Max(0, prod[i + j].out - BaseLoad)

\* max(0, slot_production - self.base_load - used_power) for slot j of the window
\* that starts at point i
AvailableSolar(prod, used, i, j, start_time) ==
    Max(0, prod[i + j].out - BaseLoad - UsedPower(used, start_time + 60 * j))


-----------------------------------------------------------------------------
(* _calculate_slot_score *)

\* the inner loop body runs at least once (i = 0: no point is at start_time)
LoopBodyRuns(prod, i, duration) == i # 0 /\ duration >= 1 /\ i <= Len(prod)

\* available_solar / appliance.power_rating divides by zero
ScoreRaises(a, start_time, duration, prod) ==
    /\ a.power_rating = 0
    /\ LoopBodyRuns(prod, FirstIndexAt(prod, start_time), duration)

\* SlotScore with the bonus from flexibility 7 on
SlotScoreBonusFromSeven(a, prod, used, i, j, start_time) ==
    LET available_solar == AvailableSolar(prod, used, i, j, start_time)
        solar_coverage == FMin(FInt(1), Frac(available_solar, a.power_rating))
        current_hour == HourOf(start_time + 60 * j)
        bonus == IF 10 <= current_hour /\ current_hour <= 16 /\ a.flexibility >= 7
                 THEN 20 ELSE 0
    IN FAdd(FMul(solar_coverage, FInt(100)), FInt(bonus))

\* the score added by slot j
SlotScore(a, prod, used, i, j, start_time) ==
    LET available_solar == AvailableSolar(prod, used, i, j, start_time)
        solar_coverage == FMin(FInt(1), Frac(available_solar, a.power_rating))
        current_hour == HourOf(start_time + 60 * j)
        bonus == IF 10 <= current_hour /\ current_hour <= 16 /\ a.flexibility > 7
                 THEN 20 ELSE 0
    IN FAdd(FMul(solar_coverage, FInt(100)), FInt(bonus))

\* for j in range(duration): if i + j < len(production_schedule): score += ...
RECURSIVE ScoreFrom(_, _, _, _, _, _, _)
ScoreFrom(a, prod, used, i, j, duration, start_time) ==
    IF j >= duration THEN FInt(0)
    ELSE IF i + j <= Len(prod)
    THEN FAdd(SlotScore(a, prod, used, i, j, start_time),
              ScoreFrom(a, prod, used, i, j + 1, duration, start_time))
    ELSE ScoreFrom(a, prod, used, i, j + 1, duration, start_time)

CalculateSlotScore(a, start_time, duration, prod, used) ==
    LET i == FirstIndexAt(prod, start_time)
    IN IF i = 0 THEN FInt(0)
       ELSE ScoreFrom(a, prod, used, i, 0, duration, start_time)

-----------------------------------------------------------------------------
(* _create_schedule_item *)

\* for j in range(duration): if i + j < len(production_schedule):
\*     solar_energy += min(power_rating, available_solar)
RECURSIVE SolarEnergyFrom(_, _, _, _, _, _, _)
SolarEnergyFrom(a, prod, used, i, j, duration, start_time) ==
    IF j >= duration THEN 0
    ELSE IF i + j <= Len(prod)
    THEN Min(a.power_rating, AvailableSolar(prod, used, i, j, start_time))
         + SolarEnergyFrom(a, prod, used, i, j + 1, duration, start_time)
    ELSE SolarEnergyFrom(a, prod, used, i, j + 1, duration, start_time)

\* grid_energy += power_rating - solar_used, in the same loop
RECURSIVE GridEnergyFrom(_, _, _, _, _, _, _)
GridEnergyFrom(a, prod, used, i, j, duration, start_time) ==
    IF j >= duration THEN 0
    ELSE IF i + j <= Len(prod)
    THEN (a.power_rating
          - Min(a.power_rating, AvailableSolar(prod, used, i, j, start_time)))
         + GridEnergyFrom(a, prod, used, i, j + 1, duration, start_time)
    ELSE GridEnergyFrom(a, prod, used, i, j + 1, duration, start_time)

CreateScheduleItem(a, start_time, duration, prod, used) ==
    LET end_time == start_time + 60 * duration
        total_energy == FMul(FInt(a.power_rating), Duration(a))
        i == FirstIndexAt(prod, start_time)
        solar_energy == IF i = 0 THEN 0
                        ELSE SolarEnergyFrom(a, prod, used, i, 0, duration, start_time)
        grid_energy == IF i = 0 THEN 0
                       ELSE GridEnergyFrom(a, prod, used, i, 0, duration, start_time)
        solar_coverage == IF FLess(FInt(0), total_energy)
                          THEN FDiv(FInt(solar_energy), total_energy)
                          ELSE FInt(0)
        cost_savings == FMul(FInt(solar_energy), ElectricityRate)
    IN [appliance |-> a, start_time |-> start_time, end_time |-> end_time,
        solar_coverage |-> solar_coverage, grid_usage |-> grid_energy,
        cost_savings |-> cost_savings]

-----------------------------------------------------------------------------
(* _find_best_time_slot *)

\* Better that lets a window of equal score replace the best one
BetterOrEqual(score, best_score) == FLeq(best_score, score)

\* if score > best_score
Better(score, best_score) == FLess(best_score, score)

\* The for loop from start index i (1-based) to last.  best_slot is <<>> for
\* None and <<item>> otherwise.  The result is what the method does: return
\* best_slot, or let an exception escape.
RECURSIVE ScanStarts(_, _, _, _, _, _, _)
ScanStarts(a, prod, used, i, last, best_score, best_slot) ==
    IF i > last THEN [kind |-> "return", slot |-> best_slot]
    ELSE IF i > Len(prod)
    THEN \* production_schedule[i][0] past the end of the list
         [kind |-> "raise", exc |-> "IndexError"]
    ELSE LET start_time == prod[i].ts
             duration_slots == DurationSlots(a)
         IN IF IsSlotAvailable(start_time, duration_slots, used, a.power_rating)
            THEN IF ScoreRaises(a, start_time, duration_slots, prod)
                 THEN [kind |-> "raise", exc |-> "ZeroDivisionError"]
                 ELSE LET score == CalculateSlotScore(a, start_time, duration_slots,
                                                      prod, used)
                      IN IF Better(score, best_score)
                         THEN ScanStarts(a, prod, used, i + 1, last, score,
                                  <<CreateScheduleItem(a, start_time, duration_slots,
                                                       prod, used)>>)
                         ELSE ScanStarts(a, prod, used, i + 1, last,
                                         best_score, best_slot)
            ELSE ScanStarts(a, prod, used, i + 1, last, best_score, best_slot)

\* FindBestTimeSlot that scans range(len(production_schedule))
FindBestTimeSlotEveryStart(a, prod, used) ==
    ScanStarts(a, prod, used, 1, Len(prod), FInt(-1), <<>>)

\* range(len(production_schedule) - duration_slots + 1), best_score = -1
FindBestTimeSlot(a, prod, used) ==
    ScanStarts(a, prod, used, 1, Len(prod) - DurationSlots(a) + 1, FInt(-1), <<>>)

-----------------------------------------------------------------------------
(* _mark_slots_used *)

\* the values current_time takes in the while loop
MarkedTimes(item) ==
    {t \in item.start_time..(item.end_time - 1) : (t - item.start_time) % 60 = 0}

\* MarkSlotsUsed that sets the committed power instead of adding to it
MarkSlotsUsedOverwrite(item, used) ==
    [t \in DOMAIN used \cup MarkedTimes(item) |->
        IF t \in MarkedTimes(item) THEN item.appliance.power_rating
        ELSE used[t]]

MarkSlotsUsed(item, used) ==
    [t \in DOMAIN used \cup MarkedTimes(item) |->
        UsedPower(used, t)
        + (IF t \in MarkedTimes(item) THEN item.appliance.power_rating ELSE 0)]

-----------------------------------------------------------------------------
(* get_schedule_summary *)

RECURSIVE SumOver(_, _)
\* sum(f(item) for item in s), over fractions
SumOver(f(_), s) ==
    IF s = <<>> THEN FInt(0)
    ELSE FAdd(SumOver(f, SubSeq(s, 1, Len(s) - 1)), f(s[Len(s)]))

\* ItemEnergy with the duration truncated to whole slots
ItemEnergyTruncated(item) ==
    FInt(item.appliance.power_rating * DurationSlots(item.appliance))

ItemEnergy(item) == FMul(FInt(item.appliance.power_rating), Duration(item.appliance))

ItemSolarEnergy(item) == FMul(item.solar_coverage, ItemEnergy(item))

ItemGridUsage(item) == FInt(item.grid_usage)

ItemCostSavings(item) == item.cost_savings

GetScheduleSummary(s) ==
    LET total_energy == SumOver(ItemEnergy, s)
        total_solar_energy == SumOver(ItemSolarEnergy, s)
        total_grid_energy == SumOver(ItemGridUsage, s)
        total_savings == SumOver(ItemCostSavings, s)
    IN [total_energy |-> total_energy,
        solar_energy |-> total_solar_energy,
        grid_energy |-> total_grid_energy,
        solar_percentage |->
            IF FLess(FInt(0), total_energy)
            THEN FMul(FDiv(total_solar_energy, total_energy), FInt(100))
            ELSE FInt(0),
        cost_savings |-> total_savings,
        scheduled_appliances |-> Len(s)]

NoSummary == [scheduled_appliances |-> -1]

-----------------------------------------------------------------------------
(* recommend_deferrals *)

\* for j in range(duration): if i + j < len(production_schedule):
\*     solar_energy += min(power_rating, max(0, slot_production - base_load))
RECURSIVE PotentialSolarFrom(_, _, _, _, _)
PotentialSolarFrom(a, prod, i, j, duration) ==
    IF j >= duration THEN 0
    ELSE IF i + j <= Len(prod)
    THEN Min(a.power_rating, Max(0, prod[i + j].out - BaseLoad))
         + PotentialSolarFrom(a, prod, i, j + 1, duration)
    ELSE PotentialSolarFrom(a, prod, i, j + 1, duration)

CalculatePotentialCoverage(a, start_time, duration, prod) ==
    LET total_energy == FMul(FInt(a.power_rating), Duration(a))
        i == FirstIndexAt(prod, start_time)
        solar_energy == IF i = 0 THEN 0
                        ELSE PotentialSolarFrom(a, prod, i, 0, duration)
    IN IF FLess(FInt(0), total_energy)
       THEN FDiv(FInt(solar_energy), total_energy)
       ELSE FInt(0)

\* The for loop of _find_better_slots from start index i (1-based) to last.
\* best_time is <<>> for None.  The result is what the method does: return
\* (best_time, best_coverage) or None (slot = <<>>), or let an exception escape.
RECURSIVE BetterScan(_, _, _, _, _, _)
BetterScan(item, prod, i, last, best_time, best_coverage) ==
    IF i > last
    THEN [kind |-> "return",
          slot |-> IF best_time = <<>> THEN <<>>
                   ELSE <<[time |-> best_time[1], coverage |-> best_coverage]>>]
    ELSE IF i > Len(prod)
    THEN [kind |-> "raise", exc |-> "IndexError"]
    ELSE LET start_time == prod[i].ts
             coverage == CalculatePotentialCoverage(item.appliance, start_time,
                             DurationSlots(item.appliance), prod)
         IN IF start_time = item.start_time
            THEN BetterScan(item, prod, i + 1, last, best_time, best_coverage)
            ELSE IF FLess(best_coverage, coverage)
            THEN BetterScan(item, prod, i + 1, last, <<start_time>>, coverage)
            ELSE BetterScan(item, prod, i + 1, last, best_time, best_coverage)

\* FindBetterSlots with best_coverage = 0 at the start
FindBetterSlotsFromZero(item, prod) ==
    BetterScan(item, prod, 1, Len(prod) - DurationSlots(item.appliance) + 1,
               <<>>, FInt(0))

FindBetterSlots(item, prod) ==
    BetterScan(item, prod, 1, Len(prod) - DurationSlots(item.appliance) + 1,
               <<>>, item.solar_coverage)

\* RecommendsFor that takes every item of low coverage, whatever its flexibility
RecommendsForAnyFlexibility(item) ==
    FLess(item.solar_coverage, Frac(1, 2))

\* item is in low_solar_items and passes the test on its flexibility
RecommendsFor(item) ==
    /\ FLess(item.solar_coverage, Frac(1, 2))
    /\ item.appliance.flexibility > 5

\* the recommendation: the name, the time of "%H:%M" and int(coverage * 100)
Recommendation(item, better) ==
    [name |-> item.appliance.name, at |-> better.time,
     percent |-> (100 * better.coverage.n) \div better.coverage.d]

\* the for loop of recommend_deferrals over the items from k on; acc is
\* recommendations
RECURSIVE RecommendFrom(_, _, _, _)
RecommendFrom(s, prod, k, acc) ==
    IF k > Len(s) THEN [kind |-> "return", recommendations |-> acc]
    ELSE IF RecommendsFor(s[k])
    THEN LET r == FindBetterSlots(s[k], prod)
         IN IF r.kind = "raise" THEN r
            ELSE IF r.slot = <<>> THEN RecommendFrom(s, prod, k + 1, acc)
            ELSE RecommendFrom(s, prod, k + 1,
                               Append(acc, Recommendation(s[k], r.slot[1])))
    ELSE RecommendFrom(s, prod, k + 1, acc)

RecommendDeferrals(s, prod) == RecommendFrom(s, prod, 1, <<>>)

-----------------------------------------------------------------------------
(* The scheduler as a state machine: one call of optimize_schedule, one step *)
(* per appliance of the for loop, then get_schedule_summary and             *)
(* recommend_deferrals on the result.                                        *)

NoWeather == [solar_irradiance |-> 0]

NoConfig == [panel_count |-> 0]

NoOutput == -1

\* no call of _calculate_slot_score is looked at
NoScoreCall == [start_index |-> 0]

-----------------------------------------------------------------------------
(* The appliance editor of the Streamlit app *)

\* the names typed into the form: the four configured at the start and the
\* value the text input starts with
EditorNames ==
    {"Dishwasher", "Washing Machine", "Dryer", "EV Charging", "New Appliance"}

\* power in tenths of a kW typed into the form: its start value 1.0, and 3.0
EditorPowers == {10, 30}

\* an entry of optimizer_config['appliances']; power_rating in tenths of a kW,
\* duration in tenths of an hour
EditorAppliance(n, p, d, f, pr) ==
    [name |-> n, power_rating |-> p, duration |-> d, flexibility |-> f,
     priority |-> pr]

\* optimizer_config['appliances'] as the session starts
DefaultAppliances ==
    <<EditorAppliance("Dishwasher", 15, 15, 8, "medium"),
      EditorAppliance("Washing Machine", 8, 10, 9, "medium"),
      EditorAppliance("Dryer", 30, 15, 7, "medium"),
      EditorAppliance("EV Charging", 72, 60, 6, "high")>>

\* new_appliance of a submitted form: duration, flexibility and priority are
\* left at the start values of their widgets
NewAppliances ==
    {EditorAppliance(n, p, 10, 5, "medium") : n \in EditorNames, p \in EditorPowers}

\* existing_index stays None
ExistingIndexNone(name, apps) == 0

\* existing_index: the first i with apps[i]['name'] == name, 0 for None
ExistingIndex(name, apps) ==
    IF \E i \in 1..Len(apps) : apps[i].name = name
    THEN CHOOSE i \in 1..Len(apps) :
             /\ apps[i].name = name
             /\ \A j \in 1..(i - 1) : apps[j].name # name
    ELSE 0

\* list.pop(i), i counted from 1
Pop(apps, i) ==
    [j \in 1..(Len(apps) - 1) |-> IF j < i THEN apps[j] ELSE apps[j + 1]]

\* the session has just started: the editor has not been used
EditorIdle == optimizer_config = [appliances |-> DefaultAppliances]

\* the methods of the solar calculator that work on lists are not called
ListMethodsIdle ==
    /\ weather_forecast = <<>>
    /\ daily_results = <<>>
    /\ min_power = 0
    /\ duration_hours = 0
    /\ optimal_windows = <<>>
    /\ categories = <<>>

\* the solar calculator is not part of a run of the scheduler
SolarIdle ==
    /\ weather = NoWeather
    /\ config = NoConfig
    /\ spc = "off"
    /\ output = NoOutput
    /\ ListMethodsIdle

Init ==
    /\ appliances \in ApplianceLists
    /\ production_schedule \in ProductionSchedules
    /\ pc = "idle"
    /\ sorted_appliances = <<>>
    /\ idx = 0
    /\ used_slots = EmptyMap
    /\ schedule = <<>>
    /\ raised = "none"
    /\ summary = NoSummary
    /\ recommendations = <<>>
    /\ results = <<>>
    /\ score_call = NoScoreCall
    /\ EditorIdle
    /\ SolarIdle

\* optimize_schedule up to the for loop: schedule = [], the sort, used_slots = {}
OptimizeBegin ==
    /\ pc = "idle"
    /\ pc' = "loop"
    /\ schedule' = <<>>
    /\ sorted_appliances' = SortedReverse(appliances)
    /\ used_slots' = EmptyMap
    /\ idx' = 1
    /\ UNCHANGED <<appliances, production_schedule, raised, summary,
                   recommendations, score_call, results>>
    /\ UNCHANGED <<solarVars, editorVars>>

\* one iteration of the for loop: _find_best_time_slot, then either the
\* exception leaves optimize_schedule (nothing is returned), or best_slot is
\* None and nothing changes, or the item is appended and its slots are marked
LoopStep ==
    /\ pc = "loop"
    /\ idx <= Len(sorted_appliances)
    /\ \E r \in {FindBestTimeSlot(sorted_appliances[idx], production_schedule,
                                  used_slots)} :
          IF r.kind = "raise"
          THEN /\ raised' = r.exc
               /\ pc' = "raised"
               /\ UNCHANGED <<idx, schedule, used_slots>>
          ELSE IF r.slot = <<>>
          THEN /\ idx' = idx + 1
               /\ UNCHANGED <<pc, raised, schedule, used_slots>>
          ELSE /\ schedule' = Append(schedule, r.slot[1])
               /\ used_slots' = MarkSlotsUsed(r.slot[1], used_slots)
               /\ idx' = idx + 1
               /\ UNCHANGED <<pc, raised>>
    /\ UNCHANGED <<appliances, production_schedule, sorted_appliances, summary,
                   recommendations, score_call, results>>
    /\ UNCHANGED <<solarVars, editorVars>>

\* return schedule
OptimizeReturn ==
    /\ pc = "loop"
    /\ idx > Len(sorted_appliances)
    /\ pc' = "returned"
    /\ results' = Append(results, schedule)
    /\ UNCHANGED <<appliances, production_schedule, sorted_appliances, idx,
                   used_slots, schedule, raised, summary, recommendations,
                   score_call>>
    /\ UNCHANGED <<solarVars, editorVars>>

\* get_schedule_summary(schedule) on the returned schedule
Summarize ==
    /\ pc = "returned"
    /\ summary' = GetScheduleSummary(schedule)
    /\ pc' = "summarized"
    /\ UNCHANGED <<appliances, production_schedule, sorted_appliances, idx,
                   used_slots, schedule, raised, recommendations, score_call,
                   results>>
    /\ UNCHANGED <<solarVars, editorVars>>

\* recommend_deferrals(schedule, production_schedule) on the returned schedule
Recommend ==
    /\ pc = "summarized"
    /\ \E r \in {RecommendDeferrals(schedule, production_schedule)} :
          IF r.kind = "raise"
          THEN /\ raised' = r.exc
               /\ pc' = "raised"
               /\ UNCHANGED recommendations
          ELSE /\ recommendations' = r.recommendations
               /\ pc' = "advised"
               /\ UNCHANGED raised
    /\ UNCHANGED <<appliances, production_schedule, sorted_appliances, idx,
                   used_slots, schedule, summary, score_call, results>>
    /\ UNCHANGED <<solarVars, editorVars>>

Next ==
    \/ OptimizeBegin
    \/ LoopStep
    \/ OptimizeReturn
    \/ Summarize
    \/ Recommend

Spec == Init /\ [][Next]_vars

-----------------------------------------------------------------------------
(* optimize_schedule called again on the same scheduler, with the same       *)
(* production schedule                                                       *)

\* OptimizeAgain with a used-slot map that outlives the call
OptimizeAgainKeepingSlots ==
    /\ pc = "returned"
    /\ Len(results) < 2
    /\ pc' = "loop"
    /\ schedule' = <<>>
    /\ sorted_appliances' = SortedReverse(appliances)
    /\ used_slots' = used_slots
    /\ idx' = 1
    /\ UNCHANGED <<appliances, production_schedule, raised, summary,
                   recommendations, score_call, results>>
    /\ UNCHANGED <<solarVars, editorVars>>

\* a second call, up to the for loop: schedule = [], the sort of
\* self.appliances, used_slots = {}
OptimizeAgain ==
    /\ pc = "returned"
    /\ Len(results) < 2
    /\ pc' = "loop"
    /\ schedule' = <<>>
    /\ sorted_appliances' = SortedReverse(appliances)
    /\ used_slots' = EmptyMap
    /\ idx' = 1
    /\ UNCHANGED <<appliances, production_schedule, raised, summary,
                   recommendations, score_call, results>>
    /\ UNCHANGED <<solarVars, editorVars>>

RepeatNext ==
    \/ OptimizeBegin
    \/ LoopStep
    \/ OptimizeReturn
    \/ OptimizeAgain

RepeatSpec == Init /\ [][RepeatNext]_vars

-----------------------------------------------------------------------------
(* solar_calculator.py.  Fixed point: a factor (sine, cosine, efficiency,    *)
(* temperature factor) is held in thousandths, a power in W (the code's kW  *)
(* times 1000), an angle in whole degrees.  The trigonometry is restricted  *)
(* to multiples of 15 degrees and to three days of the year.                 *)

\* x * y for two numbers of which one is in thousandths
FixMul(x, y) == (x * y) \div 1000

\* math.sin on 0, 15, ..., 90 degrees, in thousandths
SinTable(d) ==
    CASE d = 0 -> 0
      [] d = 15 -> 259
      [] d = 30 -> 500
      [] d = 45 -> 707
      [] d = 60 -> 866
      [] d = 75 -> 966
      [] d = 90 -> 1000

\* math.sin(math.radians(d)), d a multiple of 15
SinDeg(d) ==
    LET m == d % 360
    IN IF m <= 90 THEN SinTable(m)
       ELSE IF m <= 180 THEN SinTable(180 - m)
       ELSE IF m <= 270 THEN -SinTable(m - 180)
       ELSE -SinTable(360 - m)

\* math.cos(math.radians(d))
CosDeg(d) == SinDeg(d + 90)

\* the largest r with r * r <= n, between lo and hi: math.sqrt
RECURSIVE SqrtBetween(_, _, _)
SqrtBetween(n, lo, hi) ==
    IF lo >= hi THEN lo
    ELSE LET mid == (lo + hi + 1) \div 2
         IN IF mid * mid <= n THEN SqrtBetween(n, mid, hi)
            ELSE SqrtBetween(n, lo, mid - 1)

\* sqrt of a number in millionths, in thousandths
FixSqrt(n) == SqrtBetween(n, 0, 2000)

\* sin of the declination 23.45 * sin(360 * (284 + day) / 365) degrees for the
\* days 81 (0 degrees), 172 (23.45 degrees) and 355 (-23.45 degrees)
DeclinationSin(day) ==
    CASE day = 81 -> 0
      [] day = 172 -> 398
      [] day = 355 -> -398

\* cos of the declination
DeclinationCos(day) ==
    CASE day = 81 -> 1000
      [] day = 172 -> 917
      [] day = 355 -> 917

\* cos of the angle of incidence on the panel.  elevation and azimuth are
\* used through their sine and cosine only: for elevation = asin(s),
\* sin(elevation) = s and cos(elevation) = sqrt(1 - s * s); for
\* azimuth = atan2(y, x) with r = sqrt(x * x + y * y), cos(azimuth) = x / r and
\* sin(azimuth) = y / r, and atan2(0, 0) = 0.
CosIncidence(ts, cfg) ==
    LET sin_decl == DeclinationSin(ts.day)
        cos_decl == DeclinationCos(ts.day)
        tan_decl == (sin_decl * 1000) \div cos_decl
        sin_lat == SinDeg(cfg.lat)
        cos_lat == CosDeg(cfg.lat)
        hour_angle == 15 * (ts.hour - 12)
        sin_elevation == FixMul(sin_decl, sin_lat)
                         + FixMul(FixMul(cos_decl, cos_lat), CosDeg(hour_angle))
        cos_elevation == FixSqrt(1000000 - sin_elevation * sin_elevation)
        y == SinDeg(hour_angle)
        x == FixMul(CosDeg(hour_angle), sin_lat) - FixMul(tan_decl, cos_lat)
        r == FixSqrt(x * x + y * y)
        panel_tilt == cfg.tilt_angle
        panel_azimuth == cfg.azimuth_angle - 180
        cos_azimuth_diff ==
            IF r = 0 THEN CosDeg(panel_azimuth)
            ELSE (x * CosDeg(panel_azimuth) + y * SinDeg(panel_azimuth)) \div r
    IN FixMul(sin_elevation, CosDeg(panel_tilt))
       + FixMul(FixMul(cos_elevation, SinDeg(panel_tilt)), cos_azimuth_diff)

\* _calculate_angle_factor: max(0, cos_incidence)
CalculateAngleFactor(ts, cfg) == Max(0, CosIncidence(ts, cfg))

\* panel_area * efficiency * solar_irradiance, in W
BaseOutput(w, cfg) ==
    LET panel_area == cfg.panel_count * 2
    IN (panel_area * cfg.efficiency * w.solar_irradiance) \div 1000

\* 1 + temp_coefficient * (temperature - 25) with temp_coefficient = -0.004
TempFactor(w) == 1000 + (-4) * (w.temperature - 25)

\* base_output * temp_factor * angle_factor, before the clamp
RawOutput(w, cfg) ==
    FixMul(FixMul(BaseOutput(w, cfg), TempFactor(w)),
           CalculateAngleFactor(w.timestamp, cfg))

\* CalculateSolarOutput that returns the product as it is
CalculateSolarOutputUnclamped(w, cfg) == RawOutput(w, cfg)

\* CalculateSolarOutput with the temperature correction added to the base
\* output instead of multiplied with it
CalculateSolarOutputAdditive(w, cfg) ==
    Max(0, FixMul(BaseOutput(w, cfg) + TempFactor(w),
                  CalculateAngleFactor(w.timestamp, cfg)))

\* calculate_solar_output: max(0, output)
CalculateSolarOutput(w, cfg) == Max(0, RawOutput(w, cfg))

(* Values the inputs of the solar calculator are drawn from *)

Days == {81, 172, 355}

Hours == {0, 6, 9, 12, 15, 18}

\* degrees Celsius; at 300 the temperature factor is negative
Temperatures == {0, 25, 40, 300}

\* W/m2
Irradiances == {0, 800}

Latitudes == {-30, 0, 45}

Tilts == {0, 30, 90}

Azimuths == {0, 90, 180}

WeatherSamples ==
    {[timestamp |-> [day |-> d, hour |-> h], temperature |-> t,
      solar_irradiance |-> g]
        : d \in Days, h \in Hours, t \in Temperatures, g \in Irradiances}

\* SolarConfig; efficiency in thousandths
SolarConfigs ==
    {[panel_wattage |-> 300, panel_count |-> 20, efficiency |-> 180,
      tilt_angle |-> tl, azimuth_angle |-> az, lat |-> la]
        : tl \in Tilts, az \in Azimuths, la \in Latitudes}

\* the scheduler is not part of a run of the solar calculator
SchedulerIdle ==
    /\ appliances = <<>>
    /\ production_schedule = <<>>
    /\ pc = "off"
    /\ sorted_appliances = <<>>
    /\ idx = 0
    /\ used_slots = EmptyMap
    /\ schedule = <<>>
    /\ raised = "none"
    /\ summary = NoSummary
    /\ recommendations = <<>>
    /\ results = <<>>
    /\ score_call = NoScoreCall
    /\ EditorIdle

SolarInit ==
    /\ weather \in WeatherSamples
    /\ config \in SolarConfigs
    /\ spc = "ready"
    /\ output = NoOutput
    /\ ListMethodsIdle
    /\ SchedulerIdle

\* one call of calculate_solar_output(weather)
SolarOutputCall ==
    /\ spc = "ready"
    /\ output' = CalculateSolarOutput(weather, config)
    /\ spc' = "done"
    /\ UNCHANGED <<weather, config, weather_forecast, daily_results, min_power,
                   duration_hours, optimal_windows, categories>>
    /\ UNCHANGED <<schedVars, editorVars>>

SolarNext == SolarOutputCall

SolarSpec == SolarInit /\ [][SolarNext]_vars

-----------------------------------------------------------------------------
(* calculate_daily_production *)

\* the longest weather forecast
MaxForecast == 2

\* a midsummer day at 25 degrees Celsius: every hour of Hours, dark or bright
ForecastSamples ==
    {w \in WeatherSamples : w.timestamp.day = 172 /\ w.temperature = 25}

Forecasts == UNION {[1..n -> ForecastSamples] : n \in 0..MaxForecast}

\* for weather in weather_forecast: production_schedule.append(
\*     (weather.timestamp, self.calculate_solar_output(weather))), from sample k on
RECURSIVE DailyProductionFrom(_, _, _)
DailyProductionFrom(forecast, k, cfg) ==
    IF k > Len(forecast) THEN <<>>
    ELSE <<[ts |-> forecast[k].timestamp,
            out |-> CalculateSolarOutput(forecast[k], cfg)]>>
         \o DailyProductionFrom(forecast, k + 1, cfg)

\* CalculateDailyProduction that leaves out the samples without output
CalculateDailyProductionDaylight(forecast, cfg) ==
    SelectSeq(DailyProductionFrom(forecast, 1, cfg), LAMBDA p : p.out > 0)

CalculateDailyProduction(forecast, cfg) == DailyProductionFrom(forecast, 1, cfg)

DailyInit ==
    /\ weather_forecast \in Forecasts
    /\ config \in SolarConfigs
    /\ spc = "ready"
    /\ weather = NoWeather
    /\ output = NoOutput
    /\ daily_results = <<>>
    /\ min_power = 0
    /\ duration_hours = 0
    /\ optimal_windows = <<>>
    /\ categories = <<>>
    /\ SchedulerIdle

\* one call of calculate_daily_production(weather_forecast); the caller may
\* call it again on the same forecast
DailyProductionCall ==
    /\ spc = "ready"
    /\ Len(daily_results) < 2
    /\ daily_results' =
          Append(daily_results, CalculateDailyProduction(weather_forecast, config))
    /\ UNCHANGED <<weather, config, spc, output, weather_forecast, min_power,
                   duration_hours, optimal_windows, categories>>
    /\ UNCHANGED <<schedVars, editorVars>>

DailyNext == DailyProductionCall

DailySpec == DailyInit /\ [][DailyNext]_vars

-----------------------------------------------------------------------------
(* get_optimal_time_windows *)

\* the longest production schedule handed to get_optimal_time_windows
MaxPoints == 5

\* output_kW of the points: below and above the powers asked for
WindowOutputs == {2, 6}

\* min_power in kW: below, at and above the higher output
MinPowers == {5, 6, 7}

\* duration_hours in half hours: 0, 0.5, 1.5, 2 and 3 hours
WindowDurations == {0, 1, 3, 4, 6}

\* hourly production schedules from 09:00 on
WindowSchedules ==
    UNION {{[k \in 1..n |-> [ts |-> 540 + 60 * (k - 1), out |-> o[k]]]
            : o \in [1..n -> WindowOutputs]} : n \in 0..MaxPoints}

\* current_window_start = None, current_window_duration = 0, optimal_windows = []
WindowScanStart == [start |-> <<>>, duration |-> 0, windows |-> <<>>]

\* WindowPoint that asks for more than duration_hours points
WindowPointStrict(st, p, mp, dh2) ==
    IF p.out >= mp
    THEN LET start == IF st.start = <<>> THEN <<p.ts>> ELSE st.start
             duration == IF st.start = <<>> THEN 1 ELSE st.duration + 1
         IN IF 2 * duration > dh2
            THEN [start |-> <<>>, duration |-> 0,
                  windows |-> Append(st.windows, [start |-> start[1], end |-> p.ts])]
            ELSE [start |-> start, duration |-> duration, windows |-> st.windows]
    ELSE [start |-> <<>>, duration |-> 0, windows |-> st.windows]

\* the body of the for loop on point p = (timestamp, output); st holds
\* current_window_start (<<>> for None), current_window_duration and
\* optimal_windows; mp is min_power and dh2 twice duration_hours
WindowPoint(st, p, mp, dh2) ==
    IF p.out >= mp
    THEN LET start == IF st.start = <<>> THEN <<p.ts>> ELSE st.start
             duration == IF st.start = <<>> THEN 1 ELSE st.duration + 1
         IN IF 2 * duration >= dh2
            THEN [start |-> <<>>, duration |-> 0,
                  windows |-> Append(st.windows, [start |-> start[1], end |-> p.ts])]
            ELSE [start |-> start, duration |-> duration, windows |-> st.windows]
    ELSE [start |-> <<>>, duration |-> 0, windows |-> st.windows]

\* for i, (timestamp, output) in enumerate(production_schedule), from point k on
RECURSIVE WindowScan(_, _, _, _, _)
WindowScan(prod, k, st, mp, dh2) ==
    IF k > Len(prod) THEN st
    ELSE WindowScan(prod, k + 1, WindowPoint(st, prod[k], mp, dh2), mp, dh2)

GetOptimalTimeWindows(prod, mp, dh2) ==
    WindowScan(prod, 1, WindowScanStart, mp, dh2).windows

WindowInit ==
    /\ production_schedule \in WindowSchedules
    /\ min_power \in MinPowers
    /\ duration_hours \in WindowDurations
    /\ optimal_windows = <<>>
    /\ spc = "ready"
    /\ config \in {c \in SolarConfigs :
                      c.tilt_angle = 30 /\ c.azimuth_angle = 180 /\ c.lat = 45}
    /\ weather = NoWeather
    /\ output = NoOutput
    /\ weather_forecast = <<>>
    /\ daily_results = <<>>
    /\ categories = <<>>
    /\ appliances = <<>>
    /\ pc = "off"
    /\ sorted_appliances = <<>>
    /\ idx = 0
    /\ used_slots = EmptyMap
    /\ schedule = <<>>
    /\ raised = "none"
    /\ summary = NoSummary
    /\ recommendations = <<>>
    /\ results = <<>>
    /\ score_call = NoScoreCall
    /\ EditorIdle

\* one call of get_optimal_time_windows(production_schedule, min_power,
\* duration_hours)
OptimalWindowsCall ==
    /\ spc = "ready"
    /\ optimal_windows' =
          GetOptimalTimeWindows(production_schedule, min_power, duration_hours)
    /\ spc' = "done"
    /\ UNCHANGED <<weather, config, output, weather_forecast, daily_results,
                   min_power, duration_hours, categories>>
    /\ UNCHANGED <<schedVars, editorVars>>

WindowNext == OptimalWindowsCall

WindowSpec == WindowInit /\ [][WindowNext]_vars

-----------------------------------------------------------------------------
(* get_production_categories.  Outputs and capacities are in W here, which   *)
(* leaves the comparisons of the code (in kW) as they are.                   *)

\* the longest production schedule handed to get_production_categories
MaxCategoryPoints == 3

\* output of the points in W: at and just below 30% and 70% of 6 kW, and at
\* 30% and 70% of 3 kW
CategoryOutputs == {0, 900, 1799, 1800, 2100, 4199, 4200}

CategorySchedules ==
    UNION {{[k \in 1..n |-> [ts |-> 540 + 60 * (k - 1), out |-> o[k]]]
            : o \in [1..n -> CategoryOutputs]} : n \in 0..MaxCategoryPoints}

\* systems of 10 and of 20 panels of 300 W
CategoryConfigs ==
    {[c EXCEPT !.panel_count = n]
        : c \in {x \in SolarConfigs :
                     x.tilt_angle = 30 /\ x.azimuth_angle = 180 /\ x.lat = 45},
          n \in {10, 20}}

\* system_capacity = panel_count * panel_wattage / 1000 (kW), in W
SystemCapacity(cfg) == cfg.panel_count * cfg.panel_wattage

\* CategoryOf with > in the place of >=
CategoryOfStrict(out, capacity) ==
    IF 10 * out > 7 * capacity THEN "green"
    ELSE IF 10 * out > 3 * capacity THEN "yellow"
    ELSE "red"

\* if output >= system_capacity * 0.7 ... elif output >= system_capacity * 0.3
CategoryOf(out, capacity) ==
    IF 10 * out >= 7 * capacity THEN "green"
    ELSE IF 10 * out >= 3 * capacity THEN "yellow"
    ELSE "red"

\* for timestamp, output in production_schedule:
\*     categories.append((timestamp, category)), from point k on
RECURSIVE CategoriesFrom(_, _, _)
CategoriesFrom(prod, k, cfg) ==
    IF k > Len(prod) THEN <<>>
    ELSE <<[ts |-> prod[k].ts,
            category |-> CategoryOf(prod[k].out, SystemCapacity(cfg))]>>
         \o CategoriesFrom(prod, k + 1, cfg)

GetProductionCategories(prod, cfg) == CategoriesFrom(prod, 1, cfg)

CategoryInit ==
    /\ production_schedule \in CategorySchedules
    /\ config \in CategoryConfigs
    /\ categories = <<>>
    /\ spc = "ready"
    /\ weather = NoWeather
    /\ output = NoOutput
    /\ weather_forecast = <<>>
    /\ daily_results = <<>>
    /\ min_power = 0
    /\ duration_hours = 0
    /\ optimal_windows = <<>>
    /\ appliances = <<>>
    /\ pc = "off"
    /\ sorted_appliances = <<>>
    /\ idx = 0
    /\ used_slots = EmptyMap
    /\ schedule = <<>>
    /\ raised = "none"
    /\ summary = NoSummary
    /\ recommendations = <<>>
    /\ results = <<>>
    /\ score_call = NoScoreCall
    /\ EditorIdle

\* one call of get_production_categories(production_schedule)
ProductionCategoriesCall ==
    /\ spc = "ready"
    /\ categories' = GetProductionCategories(production_schedule, config)
    /\ spc' = "done"
    /\ UNCHANGED <<weather, config, output, weather_forecast, daily_results,
                   min_power, duration_hours, optimal_windows>>
    /\ UNCHANGED <<schedVars, editorVars>>

CategoryNext == ProductionCategoriesCall

CategorySpec == CategoryInit /\ [][CategoryNext]_vars

-----------------------------------------------------------------------------
(* _calculate_slot_score on its own: one appliance, an hourly production     *)
(* schedule, and a used-slot map as earlier placements leave it              *)

\* the longest production schedule a window is scored on
MaxScorePoints == 3

\* 4 and 6 kW; 1, 2 and 2.5 hours; flexibility at and above 7
ScoreAppliances ==
    {[name |-> 1, power_rating |-> p, dur2 |-> d, flexibility |-> f, priority |-> 1]
        : p \in {4, 6}, d \in {2, 4, 5}, f \in {7, 8}}

\* output in kW: nothing, a part and more than all of what the appliances draw
\* is left above the base load
ScoreOutputs == {1, 5, 9}

\* hourly schedules from 09:00 (the hour before the bonus hours) and from
\* 15:00 (up to the hour after them)
ScoreSchedules ==
    UNION {{[k \in 1..n |-> [ts |-> st + 60 * (k - 1), out |-> o[k]]]
            : o \in [1..n -> ScoreOutputs], st \in {540, 900}}
           : n \in 1..MaxScorePoints}

\* used-slot maps: 2 or 6 kW committed at some of the hours of the schedule
ScoreUsedMaps(prod) ==
    UNION {[T -> {2, 6}] : T \in SUBSET {prod[k].ts : k \in 1..Len(prod)}}

ScoreInit ==
    /\ appliances \in {<<a>> : a \in ScoreAppliances}
    /\ production_schedule \in ScoreSchedules
    /\ used_slots \in ScoreUsedMaps(production_schedule)
    /\ score_call = NoScoreCall
    /\ EditorIdle
    /\ pc = "off"
    /\ sorted_appliances = <<>>
    /\ idx = 0
    /\ schedule = <<>>
    /\ raised = "none"
    /\ summary = NoSummary
    /\ recommendations = <<>>
    /\ results = <<>>
    /\ SolarIdle

\* one call _calculate_slot_score(appliance, start_time, duration_slots,
\* production_schedule, used_slots) as _find_best_time_slot makes it: for a
\* start index whose window lies inside the schedule
SlotScoreCall ==
    /\ score_call = NoScoreCall
    /\ \E i \in 1..Len(production_schedule) :
          /\ i + DurationSlots(appliances[1]) - 1 <= Len(production_schedule)
          /\ score_call' =
                [start_index |-> i,
                 start_time |-> production_schedule[i].ts,
                 duration |-> DurationSlots(appliances[1]),
                 score |-> CalculateSlotScore(appliances[1],
                               production_schedule[i].ts,
                               DurationSlots(appliances[1]),
                               production_schedule, used_slots)]
    /\ UNCHANGED <<appliances, production_schedule, pc, sorted_appliances, idx,
                   used_slots, schedule, raised, summary, recommendations,
                   results>>
    /\ UNCHANGED <<solarVars, editorVars>>

ScoreNext == SlotScoreCall

ScoreSpec == ScoreInit /\ [][ScoreNext]_vars

-----------------------------------------------------------------------------
(* The operations of the appliance editor *)

\* a session of the Streamlit app in which only the editor is used
EditorInit ==
    /\ SchedulerIdle
    /\ SolarIdle

\* "Add/Update Appliance" submitted with new_appliance = new
SubmitAppliance(new) ==
    LET apps == optimizer_config.appliances
        existing_index == ExistingIndex(new.name, apps)
    IN /\ IF existing_index # 0
          THEN optimizer_config' =
                   [optimizer_config EXCEPT !.appliances[existing_index] = new]
          ELSE /\ Len(apps) < MaxEditorLen
               /\ optimizer_config' =
                      [optimizer_config EXCEPT !.appliances = Append(apps, new)]
       /\ UNCHANGED <<schedVars, solarVars>>

AddUpdateAppliance == \E new \in NewAppliances : SubmitAppliance(new)

\* the button "Remove ..." of entry i pressed
PopAppliance(i) ==
    /\ i \in 1..Len(optimizer_config.appliances)
    /\ optimizer_config' =
           [optimizer_config EXCEPT !.appliances = Pop(optimizer_config.appliances, i)]
    /\ UNCHANGED <<schedVars, solarVars>>

RemoveAppliance == \E i \in 1..MaxEditorLen : PopAppliance(i)

EditorNext == AddUpdateAppliance \/ RemoveAppliance

EditorSpec == EditorInit /\ [][EditorNext]_vars

-----------------------------------------------------------------------------
(* Properties of optimize_schedule *)

Returned == pc \in {"returned", "summarized", "advised"}

Summarized == pc \in {"summarized", "advised"}

Items == {schedule[k] : k \in 1..Len(schedule)}

RECURSIVE PowerSum(_)
PowerSum(S) ==
    IF S = {} THEN 0
    ELSE LET x == CHOOSE y \in S : TRUE
         IN x.appliance.power_rating + PowerSum(S \ {x})

\* the items that run at instant t
Covering(t) == {it \in Items : it.start_time <= t /\ t < it.end_time}

\* the instants looked at: every production point and every start of an item
Instants ==
    {production_schedule[k].ts : k \in 1..Len(production_schedule)}
    \cup {it.start_time : it \in Items}

\* C1: once optimize_schedule has returned, the items that cover any one hour
\* draw at most 10 kW together, and no entry of the used-slot map is above 10
CapacityRespected ==
    /\ Returned => \A t \in Instants : PowerSum(Covering(t)) <= 10
    /\ \A t \in DOMAIN used_slots : used_slots[t] <= 10

InPlacementOrder(s) ==
    \A i, j \in 1..Len(s) :
        i < j => \/ s[i].priority > s[j].priority
                 \/ s[i].priority = s[j].priority
                    /\ s[i].flexibility <= s[j].flexibility

ScheduledAppliances == [k \in 1..Len(schedule) |-> schedule[k].appliance]

\* position of appliance a in the order of the attempts
AttemptPosition(a) == CHOOSE k \in 1..Len(sorted_appliances) : sorted_appliances[k] = a

\* C3: the appliances are attempted (sorted_appliances, from the first to idx - 1)
\* in placement order, every appliance is among them, and the items of the
\* schedule follow the order of the attempts
PlacementOrder ==
    pc # "idle" =>
        /\ InPlacementOrder(sorted_appliances)
        /\ Len(sorted_appliances) = Len(appliances)
        /\ {sorted_appliances[k] : k \in 1..Len(sorted_appliances)}
              = {appliances[k] : k \in 1..Len(appliances)}
        /\ InPlacementOrder(ScheduledAppliances)
        /\ \A k \in 1..Len(schedule) :
              /\ schedule[k].appliance \in
                    {sorted_appliances[n] : n \in 1..(idx - 1)}
              /\ \A m \in 1..(k - 1) :
                    AttemptPosition(schedule[m].appliance)
                        < AttemptPosition(schedule[k].appliance)

\* both appliances placed, the two of one priority and given in the order of
\* falling flexibility, so that the sort had to swap them
PlacementOrderWitness ==
    /\ Returned
    /\ Len(schedule) = 2
    /\ appliances[1].priority = appliances[2].priority
    /\ appliances[1].flexibility > appliances[2].flexibility
    /\ schedule[1].appliance = appliances[2]

ApplianceSet == {appliances[k] : k \in 1..Len(appliances)}

\* the appliance the placement order puts first: highest priority, among those
\* the lowest flexibility, among those the first of the list
ExpectedFirst ==
    CHOOSE a \in ApplianceSet :
        \A b \in ApplianceSet \ {a} :
            \/ a.priority > b.priority
            \/ a.priority = b.priority /\ a.flexibility < b.flexibility
            \/ a.priority = b.priority /\ a.flexibility = b.flexibility
               /\ a.name < b.name

\* what a gets when it is the only appliance: the sort yields <<a>> and the
\* used-slot map is empty when a is attempted
PlacedAlone(a) == FindBestTimeSlot(a, production_schedule, EmptyMap)

\* the power the item hi has committed at time t
CommittedBy(hi, t) ==
    IF \E k \in 0..(DurationSlots(hi.appliance) - 1) : t = hi.start_time + 60 * k
    THEN hi.appliance.power_rating ELSE 0

\* the index of the production point at which item it starts
StartPoint(it) ==
    CHOOSE k \in 1..Len(production_schedule) :
        production_schedule[k].ts = it.start_time

RECURSIVE RemainingSolarUsed(_, _, _)
\* the solar energy item lo can use in the slots J of its window once hi has
\* taken its share: slot j is the point j places after the start of lo and
\* j hours after its start time
RemainingSolarUsed(lo, hi, J) ==
    IF J = {} THEN 0
    ELSE LET j == CHOOSE x \in J : TRUE
             left == production_schedule[StartPoint(lo) + j].out - BaseLoad
                     - CommittedBy(hi, lo.start_time + 60 * j)
         IN Min(lo.appliance.power_rating, Max(0, left))
            + RemainingSolarUsed(lo, hi, J \ {j})

\* C4: the appliance attempted first gets the start slot it gets when it is the
\* only appliance; and of two placed appliances of equal flexibility, the one
\* of higher priority is that first one, and the other is accounted against the
\* solar the first one has left
FirstAttemptAsAlone ==
    (pc # "idle" /\ idx >= 2) =>
        /\ LET a == ExpectedFirst
               alone == PlacedAlone(a)
           IN /\ alone.kind = "return"
              /\ IF alone.slot = <<>>
                 THEN \A it \in Items : it.appliance # a
                 ELSE /\ Len(schedule) >= 1
                      /\ schedule[1].appliance = a
                      /\ schedule[1].start_time = alone.slot[1].start_time
        /\ (/\ Len(appliances) = 2
            /\ Len(schedule) = 2
            /\ appliances[1].flexibility = appliances[2].flexibility
            /\ appliances[1].priority # appliances[2].priority)
           => /\ schedule[1].appliance.priority > schedule[2].appliance.priority
              /\ FMul(schedule[2].solar_coverage, ItemEnergy(schedule[2]))
                   = FInt(RemainingSolarUsed(schedule[2], schedule[1],
                          0..(DurationSlots(schedule[2].appliance) - 1)))

\* one point of high production; the appliance of higher priority comes second
\* in the list, is placed first on that point and is fully covered; the other
\* one runs in the same hour and gets only the solar that is left
FirstAttemptAsAloneWitness ==
    /\ Returned
    /\ Len(schedule) = 2
    /\ Cardinality({k \in 1..Len(production_schedule) :
                       production_schedule[k].out = 9}) = 1
    /\ appliances[1].flexibility = appliances[2].flexibility
    /\ appliances[1].priority < appliances[2].priority
    /\ schedule[1].appliance = appliances[2]
    /\ schedule[1].start_time = schedule[2].start_time
    /\ schedule[1].solar_coverage = FInt(1)
    /\ FLess(FInt(0), schedule[2].solar_coverage)
    /\ FLess(schedule[2].solar_coverage, FInt(1))

ZeroSummary ==
    [total_energy |-> FInt(0), solar_energy |-> FInt(0), grid_energy |-> FInt(0),
     solar_percentage |-> FInt(0), cost_savings |-> FInt(0),
     scheduled_appliances |-> 0]

\* C5: with an empty production schedule, or with no appliance, optimize_schedule
\* returns the empty schedule, and its summary is 0 in every field
EmptyInputEmptySchedule ==
    (production_schedule = <<>> \/ appliances = <<>>) =>
        /\ pc # "raised"
        /\ Returned => schedule = <<>>
        /\ Summarized => summary = ZeroSummary

\* C6: optimize_schedule raises nothing when every appliance has a positive
\* power_rating and a positive duration, durations below one hour included
NoExceptionForPositiveInputs ==
    (\A a \in ApplianceSet : a.power_rating > 0 /\ a.dur2 > 0) => pc # "raised"

\* C7: with an appliance of total_energy 0 no computation divides by zero, and
\* the coverage of such an item and the percentage of such a summary are 0
ZeroEnergyGuarded ==
    /\ raised # "ZeroDivisionError"
    /\ \A it \in Items :
          ItemEnergy(it) = FInt(0) => it.solar_coverage = FInt(0)
    /\ (Summarized /\ summary.total_energy = FInt(0))
          => summary.solar_percentage = FInt(0)

\* no start index of the production schedule gives appliance a a window that
\* lies inside the schedule and that _is_slot_available accepts
NoFeasibleWindow(a) ==
    \A i \in 1..Len(production_schedule) :
        i + DurationSlots(a) - 1 <= Len(production_schedule)
            => ~IsSlotAvailable(production_schedule[i].ts, DurationSlots(a),
                                used_slots, a.power_rating)

\* C8: an appliance without a feasible window adds no item and raises nothing,
\* the loop goes on to the next appliance, and the schedule never holds more
\* than one item of an appliance
OmissionIsSilent ==
    [][/\ (pc = "loop" /\ idx <= Len(sorted_appliances)
              /\ NoFeasibleWindow(sorted_appliances[idx]))
          => (pc' = "loop" /\ raised' = "none" /\ schedule' = schedule
                 /\ idx' = idx + 1)
       /\ Len(schedule') <= Len(appliances')
       /\ \A k, m \in 1..Len(schedule') :
             schedule'[k].appliance = schedule'[m].appliance => k = m]_vars

-----------------------------------------------------------------------------
(* Properties of calculate_solar_output *)

-----------------------------------------------------------------------------
(* Properties of calculate_daily_production *)

\* C11: what calculate_daily_production returns has the length of the forecast,
\* its element k is (timestamp of sample k, calculate_solar_output(sample k)),
\* and a second call on the same forecast returns the same sequence
DailyProductionPointwise ==
    /\ \A c \in 1..Len(daily_results) :
          /\ Len(daily_results[c]) = Len(weather_forecast)
          /\ \A k \in 1..Len(weather_forecast) :
                /\ daily_results[c][k].ts = weather_forecast[k].timestamp
                /\ daily_results[c][k].out
                      = CalculateSolarOutput(weather_forecast[k], config)
    /\ Len(daily_results) = 2 => daily_results[1] = daily_results[2]

\* two calls on a forecast of a dark sample followed by a bright one of an
\* earlier hour: the dark sample is kept, and the order is that of the forecast
DailyProductionPointwiseWitness ==
    /\ Len(daily_results) = 2
    /\ Len(weather_forecast) = 2
    /\ weather_forecast[1].timestamp.hour > weather_forecast[2].timestamp.hour
    /\ daily_results[2][1].out = 0
    /\ daily_results[2][2].out > 0

-----------------------------------------------------------------------------
(* Properties of get_optimal_time_windows *)

\* point k has output >= min_power
Qualifies(k) == production_schedule[k].out >= min_power

\* lo..hi is a maximal run of consecutive qualifying points
MaximalRun(lo, hi) ==
    /\ lo <= hi
    /\ \A k \in lo..hi : Qualifies(k)
    /\ lo = 1 \/ ~Qualifies(lo - 1)
    /\ hi = Len(production_schedule) \/ ~Qualifies(hi + 1)

\* n = max(1, ceil(duration_hours))
BlockLength == Max(1, (duration_hours + 1) \div 2)

\* the blocks of BlockLength points cut from the left end of every maximal run,
\* as (first timestamp, last timestamp); an incomplete last block is left out
ExpectedBlocks ==
    {[start |-> production_schedule[lo + m * BlockLength].ts,
      end |-> production_schedule[lo + (m + 1) * BlockLength - 1].ts]
        : <<lo, hi, m>> \in
            {t \in (1..Len(production_schedule)) \X (1..Len(production_schedule))
                     \X (0..Len(production_schedule)) :
                /\ MaximalRun(t[1], t[2])
                /\ t[3] < (t[2] - t[1] + 1) \div BlockLength}}

\* C12: the windows of get_optimal_time_windows are exactly the blocks of
\* n = max(1, ceil(duration_hours)) points cut from the left end of the maximal
\* runs of points with output >= min_power, each once, in ascending order and
\* without overlap
WindowsAreBlocks ==
    spc = "done" =>
        /\ {optimal_windows[k] : k \in 1..Len(optimal_windows)} = ExpectedBlocks
        /\ Len(optimal_windows) = Cardinality(ExpectedBlocks)
        /\ \A k \in 1..(Len(optimal_windows) - 1) :
              optimal_windows[k].end < optimal_windows[k + 1].start

\* outputs [2, 6, 6, 6, 2] with min_power 5 and duration_hours 2: one window,
\* over the 2nd and the 3rd point
WindowsAreBlocksWitness ==
    /\ spc = "done"
    /\ [k \in 1..Len(production_schedule) |-> production_schedule[k].out]
          = <<2, 6, 6, 6, 2>>
    /\ min_power = 5
    /\ duration_hours = 4
    /\ optimal_windows = <<[start |-> production_schedule[2].ts,
                            end |-> production_schedule[3].ts]>>

-----------------------------------------------------------------------------
(* Properties of recommend_deferrals *)

\* the items a recommendation names
ItemsNamed(rec) == {k \in 1..Len(schedule) : schedule[k].appliance.name = rec.name}

\* C13: recommend_deferrals leaves the schedule, its items and the production
\* schedule as they are, and its recommendations are at most one per item, each
\* for an item with solar_coverage < 0.5 and flexibility > 5
DeferralsAreAdvisory ==
    [][pc = "summarized" =>
          /\ schedule' = schedule
          /\ production_schedule' = production_schedule
          /\ appliances' = appliances
          /\ pc' = "advised"
          /\ Len(recommendations') <= Len(schedule)
          /\ \A n \in 1..Len(recommendations') :
                /\ \E k \in ItemsNamed(recommendations'[n]) :
                      /\ FLess(schedule[k].solar_coverage, Frac(1, 2))
                      /\ schedule[k].appliance.flexibility > 5
                /\ \A m \in 1..Len(recommendations') :
                      recommendations'[m].name = recommendations'[n].name => m = n]_vars

\* two items of low coverage, one of flexibility 3 and one of flexibility 8:
\* only the second one gets a recommendation
DeferralsAreAdvisoryWitness ==
    /\ pc = "advised"
    /\ Len(schedule) = 2
    /\ \A k \in 1..2 : FLess(schedule[k].solar_coverage, Frac(1, 2))
    /\ schedule[1].appliance.flexibility = 3
    /\ schedule[2].appliance.flexibility = 8
    /\ Len(recommendations) = 1
    /\ recommendations[1].name = schedule[2].appliance.name

-----------------------------------------------------------------------------
(* Properties of get_schedule_summary *)

\* the sum of a sequence of fractions
RECURSIVE FSum(_)
FSum(q) == IF q = <<>> THEN FInt(0) ELSE FAdd(Head(q), FSum(Tail(q)))

\* power_rating x full duration of item k, the duration being dur2 half hours
FullEnergy(k) ==
    Frac(schedule[k].appliance.power_rating * schedule[k].appliance.dur2, 2)

TotalFullEnergy == FSum([k \in 1..Len(schedule) |-> FullEnergy(k)])

TotalCoveredEnergy ==
    FSum([k \in 1..Len(schedule) |-> FMul(schedule[k].solar_coverage, FullEnergy(k))])

\* C14: the summary has total_energy = sum of power_rating x full duration,
\* solar_percentage = sum(solar_coverage x power_rating x duration) / total_energy
\* x 100 (0 when total_energy is 0), cost_savings = sum of item.cost_savings,
\* grid_energy = sum of item.grid_usage, scheduled_appliances = number of items
SummaryFormula ==
    Summarized =>
        /\ summary.total_energy = TotalFullEnergy
        /\ summary.solar_percentage =
              (IF TotalFullEnergy = FInt(0) THEN FInt(0)
               ELSE FMul(FDiv(TotalCoveredEnergy, TotalFullEnergy), FInt(100)))
        /\ summary.cost_savings =
              FSum([k \in 1..Len(schedule) |-> schedule[k].cost_savings])
        /\ summary.grid_energy =
              FSum([k \in 1..Len(schedule) |-> FInt(schedule[k].grid_usage)])
        /\ summary.scheduled_appliances = Len(schedule)

\* the summary of two items, one of them of 2.5 hours, that solar covers in part
SummaryFormulaWitness ==
    /\ pc = "summarized"
    /\ Len(schedule) = 2
    /\ \E k \in 1..2 : schedule[k].appliance.dur2 = 5
    /\ FLess(FInt(0), summary.solar_percentage)
    /\ FLess(summary.solar_percentage, FInt(100))
    /\ FLess(FInt(0), summary.grid_energy)

-----------------------------------------------------------------------------
(* Properties of get_production_categories *)

\* panel_count x panel_wattage, the rated capacity in W
Nameplate == config.panel_count * config.panel_wattage

\* C15: get_production_categories returns one (timestamp, category) per point,
\* in the order of the points; the category is green iff output >= 70% of the
\* nameplate capacity, yellow iff it is below that and >= 30% of it, red
\* otherwise, whatever the other points of the schedule are
CategoriesByNameplate ==
    spc = "done" =>
        /\ Len(categories) = Len(production_schedule)
        /\ \A k \in 1..Len(production_schedule) :
              LET out == production_schedule[k].out
                  cat == categories[k].category
              IN /\ categories[k].ts = production_schedule[k].ts
                 /\ cat \in {"green", "yellow", "red"}
                 /\ cat = "green" <=> 10 * out >= 7 * Nameplate
                 /\ cat = "yellow"
                       <=> (10 * out < 7 * Nameplate /\ 10 * out >= 3 * Nameplate)

\* a day whose peak stays below 70% of the nameplate capacity: the peak itself
\* is yellow, a point at exactly 30% is yellow and one just below is red
CategoriesByNameplateWitness ==
    /\ spc = "done"
    /\ Nameplate = 6000
    /\ [k \in 1..Len(production_schedule) |-> production_schedule[k].out]
          = <<1799, 4199, 1800>>
    /\ [k \in 1..Len(categories) |-> categories[k].category]
          = <<"red", "yellow", "yellow">>

-----------------------------------------------------------------------------
(* Properties of _find_best_time_slot and of the methods it calls *)

\* the appliance of the current iteration of the for loop
InAttempt == pc = "loop" /\ idx <= Len(sorted_appliances)

\* the start indices whose window of n slots lies inside the production schedule
WindowStarts(n) == {i \in 1..Len(production_schedule) :
                        i + n - 1 <= Len(production_schedule)}

\* committed power at every hour of the window plus the power of a is <= 10 kW
WithinCapacity(a, start_time) ==
    \A k \in 0..(DurationSlots(a) - 1) :
        UsedPower(used_slots, start_time + 60 * k) + a.power_rating <= 10

\* C16: a candidate window is taken as feasible exactly when, at every hour of
\* the window, the committed power (0 where nothing is committed) plus the
\* power_rating of the appliance is <= 10 kW
FeasibleExactlyWithinCapacity ==
    InAttempt =>
        LET a == sorted_appliances[idx]
        IN \A i \in WindowStarts(DurationSlots(a)) :
              IsSlotAvailable(production_schedule[i].ts, DurationSlots(a),
                              used_slots, a.power_rating)
                 <=> WithinCapacity(a, production_schedule[i].ts)

\* the start indices of the feasible windows of appliance a
FeasibleStarts(a) ==
    {i \in WindowStarts(DurationSlots(a)) :
        IsSlotAvailable(production_schedule[i].ts, DurationSlots(a), used_slots,
                        a.power_rating)}

\* the score of the window of a that starts at point i
ScoreAt(a, i, used) ==
    CalculateSlotScore(a, production_schedule[i].ts, DurationSlots(a),
                       production_schedule, used)

\* i has the highest score among the feasible windows of a, and is the earliest
\* of those that have it
EarliestBest(a, i) ==
    /\ i \in FeasibleStarts(a)
    /\ \A j \in FeasibleStarts(a) :
          /\ FLeq(ScoreAt(a, j, used_slots), ScoreAt(a, i, used_slots))
          /\ ScoreAt(a, j, used_slots) = ScoreAt(a, i, used_slots) => i <= j

\* C17: an attempt that raises nothing places the appliance on the feasible
\* window of the highest score, on the earliest one if several windows have
\* that score, and places nothing if no window is feasible
BestSlotIsEarliestMaximum ==
    [][(InAttempt /\ pc' # "raised") =>
          LET a == sorted_appliances[idx]
          IN IF FeasibleStarts(a) = {}
             THEN schedule' = schedule
             ELSE /\ Len(schedule') = Len(schedule) + 1
                  /\ schedule'[Len(schedule')].appliance = a
                  /\ \E i \in FeasibleStarts(a) :
                        /\ EarliestBest(a, i)
                        /\ schedule'[Len(schedule')].start_time
                              = production_schedule[i].ts]_vars

\* the first appliance has been placed on the first point, while the window
\* at the second point had the same score and the one at the third a lower one
BestSlotIsEarliestMaximumWitness ==
    /\ pc = "loop"
    /\ idx = 2
    /\ Len(schedule) = 1
    /\ Len(production_schedule) = 3
    /\ DurationSlots(schedule[1].appliance) = 1
    /\ schedule[1].start_time = production_schedule[1].ts
    /\ ScoreAt(schedule[1].appliance, 1, EmptyMap)
          = ScoreAt(schedule[1].appliance, 2, EmptyMap)
    /\ FLess(ScoreAt(schedule[1].appliance, 3, EmptyMap),
             ScoreAt(schedule[1].appliance, 1, EmptyMap))

-----------------------------------------------------------------------------
(* Properties of _calculate_slot_score *)

\* the production at time t: the output of the point with that timestamp
ProductionAt(t) ==
    (CHOOSE p \in {production_schedule[k] : k \in 1..Len(production_schedule)} :
        p.ts = t).out

\* 100 x min(1, max(0, production - base_load - committed power) / power_rating)
\* for the hour that starts at t
CoverageScore(a, t) ==
    LET left == Max(0, ProductionAt(t) - 2 - UsedPower(used_slots, t))
    IN IF left >= a.power_rating THEN FInt(100)
       ELSE Frac(100 * left, a.power_rating)

\* 20 if the clock hour of t is in 10..16 and the flexibility is > 7
BonusScore(a, t) ==
    IF a.flexibility > 7 /\ (t \div 60) \in 10..16 THEN FInt(20) ELSE FInt(0)

\* C18: the score of a window is the sum, over its hours, of 100 x the share
\* of the power_rating that production - base_load - committed power covers,
\* plus 20 for every hour from 10 to 16 o'clock if the flexibility is > 7
ScoreIsCoveragePlusBonus ==
    score_call # NoScoreCall =>
        score_call.score =
            FSum([j \in 1..score_call.duration |->
                    FAdd(CoverageScore(appliances[1],
                                       score_call.start_time + 60 * (j - 1)),
                         BonusScore(appliances[1],
                                    score_call.start_time + 60 * (j - 1)))])

\* a window of two hours from 16:00 on for an appliance of 4 kW and flexibility
\* 8: the first hour is covered to a quarter, after a commitment of 6 kW, and
\* has the bonus; the hour of 17:00 is covered fully and has no bonus
ScoreIsCoveragePlusBonusWitness ==
    /\ score_call # NoScoreCall
    /\ score_call.start_time = 960
    /\ score_call.duration = 2
    /\ appliances[1].flexibility = 8
    /\ appliances[1].power_rating = 4
    /\ ProductionAt(960) = 9
    /\ UsedPower(used_slots, 960) = 6
    /\ ProductionAt(1020) = 9
    /\ UsedPower(used_slots, 1020) = 0
    /\ score_call.score = FInt(25 + 20 + 100)

-----------------------------------------------------------------------------
(* Properties of _create_schedule_item *)

\* power_rating x the duration of the appliance as given, dur2 half hours
TotalEnergyOf(it) == Frac(it.appliance.power_rating * it.appliance.dur2, 2)

\* C19: every item has grid_usage = total_energy - solar_energy_used, with
\* total_energy = power_rating x the untruncated duration (solar_energy_used
\* is cost_savings / 0.12), for fractional durations too
GridUsageIsRemainder ==
    \A it \in Items :
        FAdd(FInt(it.grid_usage), FDiv(it.cost_savings, Frac(12, 100)))
            = TotalEnergyOf(it)

\* min(power_rating, max(0, production - base_load - committed power)) for slot
\* j of the window of item it: the point j places after its start, the
\* commitments of used at j hours after its start time
SlotSolarUsed(it, j, used) ==
    Min(it.appliance.power_rating,
        Max(0, production_schedule[StartPoint(it) + j].out - 2
               - UsedPower(used, it.start_time + 60 * j)))

\* the sum of it over the truncated slot count
SolarEnergyUsed(it, used) ==
    FSum([n \in 1..(it.appliance.dur2 \div 2) |-> FInt(SlotSolarUsed(it, n - 1, used))])

\* C20: the item a placement appends has solar_coverage = solar_energy_used /
\* (power_rating x original duration) and cost_savings = solar_energy_used x
\* 0.12, solar_energy_used being summed over the truncated slot count against
\* the commitments made before the placement
CoverageAndSavingsFormula ==
    [][(InAttempt /\ Len(schedule') = Len(schedule) + 1) =>
          LET it == schedule'[Len(schedule')]
              solar_energy_used == SolarEnergyUsed(it, used_slots)
          IN /\ it.solar_coverage = FDiv(solar_energy_used, TotalEnergyOf(it))
             /\ it.cost_savings = FMul(solar_energy_used, Frac(12, 100))]_vars

\* an appliance of 2.5 hours placed second, from the hour on that the first
\* item runs in, and covered by solar in part
CoverageAndSavingsFormulaWitness ==
    /\ Len(schedule) = 2
    /\ schedule[2].appliance.dur2 = 5
    /\ schedule[2].start_time = schedule[1].start_time
    /\ FLess(FInt(0), schedule[2].solar_coverage)
    /\ FLess(schedule[2].solar_coverage, FInt(1))
    /\ FLess(FInt(0), schedule[2].cost_savings)
    /\ schedule[2].grid_usage > 0

-----------------------------------------------------------------------------
(* Properties of the used-slot map *)

\* the hours of the window of item it: its start and every full hour after it,
\* as many as the truncated duration
WindowHours(it) ==
    {it.start_time + 60 * k : k \in 0..(DurationSlots(it.appliance) - 1)}

\* the power the items of schedule s have committed at hour t
RECURSIVE CommittedIn(_, _)
CommittedIn(s, t) ==
    IF s = <<>> THEN 0
    ELSE (IF t \in WindowHours(Head(s)) THEN Head(s).appliance.power_rating ELSE 0)
         + CommittedIn(Tail(s), t)

\* every time a used-slot map or a window of an item can speak of
AllHours(s, used) ==
    DOMAIN used \cup UNION {WindowHours(s[k]) : k \in 1..Len(s)}

\* C21: a placement adds the power_rating of the appliance to the committed
\* power of each hour of the chosen window and to no other hour; an attempt
\* that places nothing leaves the map as it is; and whenever an appliance is
\* attempted, the map holds the commitments of all items placed before
CommitFrame ==
    [][InAttempt =>
          /\ Len(schedule') = Len(schedule) + 1 =>
                LET it == schedule'[Len(schedule')]
                IN /\ it.appliance = sorted_appliances[idx]
                   /\ \A t \in AllHours(schedule', used_slots') :
                         UsedPower(used_slots', t)
                            = UsedPower(used_slots, t)
                              + (IF t \in WindowHours(it)
                                 THEN it.appliance.power_rating ELSE 0)
          /\ Len(schedule') = Len(schedule) => used_slots' = used_slots
          /\ \A t \in AllHours(schedule, used_slots) :
                UsedPower(used_slots, t) = CommittedIn(schedule, t)
          /\ (pc' = "loop" =>
                \A t \in AllHours(schedule', used_slots') :
                   UsedPower(used_slots', t) = CommittedIn(schedule', t))]_vars

\* two placements: the second one runs in the first hour of the first one,
\* where both powers are committed, and not in its second hour, where the
\* commitment of the first one stands alone
CommitFrameWitness ==
    /\ pc = "loop"
    /\ idx = 3
    /\ Len(schedule) = 2
    /\ DurationSlots(schedule[1].appliance) = 2
    /\ DurationSlots(schedule[2].appliance) = 1
    /\ schedule[2].start_time = schedule[1].start_time
    /\ UsedPower(used_slots, schedule[1].start_time)
          = schedule[1].appliance.power_rating + schedule[2].appliance.power_rating
    /\ UsedPower(used_slots, schedule[1].start_time + 60)
          = schedule[1].appliance.power_rating
    /\ schedule[2].appliance.power_rating > 0

-----------------------------------------------------------------------------
(* Properties of the window of an item *)

\* C22: the start_time of every item is the timestamp of a production point
\* from which floor(duration) points are left in the schedule, itself included,
\* and its end_time is floor(duration) hours after its start_time
WindowInsideSchedule ==
    \A it \in Items :
        /\ \E i \in 1..Len(production_schedule) :
              /\ production_schedule[i].ts = it.start_time
              /\ (i - 1) + (it.appliance.dur2 \div 2) <= Len(production_schedule)
        /\ it.end_time = it.start_time + 60 * (it.appliance.dur2 \div 2)

\* an item of 2.5 hours on a schedule of three points, placed on the last
\* start that leaves two points: the second one
WindowInsideScheduleWitness ==
    /\ Returned
    /\ Len(production_schedule) = 3
    /\ \E it \in Items :
          /\ it.appliance.dur2 = 5
          /\ it.start_time = production_schedule[2].ts
          /\ it.end_time = it.start_time + 120

-----------------------------------------------------------------------------
(* Properties of the suggestions of recommend_deferrals *)

\* the coverage appliance a can have from start index i on, from production
\* - base_load alone
PotentialCoverageAt(a, i) ==
    FDiv(FSum([n \in 1..(a.dur2 \div 2) |->
                 FInt(Min(a.power_rating,
                          Max(0, production_schedule[i + n - 1].out - 2)))]),
         Frac(a.power_rating * a.dur2, 2))

\* the start indices other than that of the current start time of the item
Alternatives(it) ==
    {i \in WindowStarts(it.appliance.dur2 \div 2) :
        production_schedule[i].ts # it.start_time}

\* i is the alternative of the highest potential coverage, the earliest of
\* those that have it
BestAlternative(it, i) ==
    /\ i \in Alternatives(it)
    /\ \A j \in Alternatives(it) :
          /\ FLeq(PotentialCoverageAt(it.appliance, j),
                  PotentialCoverageAt(it.appliance, i))
          /\ PotentialCoverageAt(it.appliance, j)
                = PotentialCoverageAt(it.appliance, i) => i <= j

\* C23: a suggestion names a start time other than the current one of its
\* item, of a potential coverage above the current solar_coverage of the
\* item, and that start is the alternative of the highest potential
\* coverage, the earliest one among equals
SuggestionIsBestAlternative ==
    pc = "advised" =>
        \A n \in 1..Len(recommendations) :
            \A k \in ItemsNamed(recommendations[n]) :
                /\ recommendations[n].at # schedule[k].start_time
                /\ \E i \in Alternatives(schedule[k]) :
                      /\ production_schedule[i].ts = recommendations[n].at
                      /\ BestAlternative(schedule[k], i)
                      /\ FLess(schedule[k].solar_coverage,
                               PotentialCoverageAt(schedule[k].appliance, i))
                      /\ recommendations[n].percent =
                            (100 * PotentialCoverageAt(schedule[k].appliance, i).n)
                               \div PotentialCoverageAt(schedule[k].appliance, i).d

\* a suggestion for an item that has two alternatives of equal potential
\* coverage: the earlier one is suggested
SuggestionIsBestAlternativeWitness ==
    /\ pc = "advised"
    /\ Len(recommendations) >= 1
    /\ \E k \in ItemsNamed(recommendations[1]) :
          /\ Cardinality(Alternatives(schedule[k])) = 2
          /\ \E i, j \in Alternatives(schedule[k]) :
                /\ i < j
                /\ PotentialCoverageAt(schedule[k].appliance, i)
                      = PotentialCoverageAt(schedule[k].appliance, j)
                /\ recommendations[1].at = production_schedule[i].ts

-----------------------------------------------------------------------------
(* Properties of repeated calls of optimize_schedule *)

\* C24: a second call of optimize_schedule with the same production schedule
\* starts from an empty used-slot map and returns the schedule the first call
\* returned, and no step of a call changes the appliance list of the scheduler
CallsAreIndependent ==
    [][/\ appliances' = appliances
       /\ (pc = "returned" /\ pc' = "loop") => used_slots' = EmptyMap
       /\ Len(results') = 2 => results'[1] = results'[2]]_vars

\* two calls have returned the same two items; the first call had committed
\* the full 10 kW in one hour, in which the second call placed both again;
\* the list of the scheduler is not in the order of the attempts
CallsAreIndependentWitness ==
    /\ pc = "returned"
    /\ Len(results) = 2
    /\ Len(results[2]) = 2
    /\ results[2][1].start_time = results[2][2].start_time
    /\ results[2][1].appliance.power_rating + results[2][2].appliance.power_rating = 10
    /\ results[2][1].appliance = appliances[2]
    /\ sorted_appliances # appliances

-----------------------------------------------------------------------------
(* Properties of the solar energy the items are credited with *)

\* the production schedule has one point per hour
HourlySpaced ==
    \A k \in 1..(Len(production_schedule) - 1) :
        production_schedule[k + 1].ts = production_schedule[k].ts + 60

\* the solar energy item m of the schedule takes in the hour that starts at t:
\* min(power_rating, available_solar) against the commitments of the items
\* placed before it, 0 if the hour is not in its window
SolarTaken(m, t) ==
    IF t \in WindowHours(schedule[m])
    THEN Min(schedule[m].appliance.power_rating,
             Max(0, ProductionAt(t) - 2
                    - CommittedIn(SubSeq(schedule, 1, m - 1), t)))
    ELSE 0

\* the sum of f[1], ..., f[n]
RECURSIVE SumTo(_, _)
SumTo(f, n) == IF n = 0 THEN 0 ELSE f[n] + SumTo(f, n - 1)

\* the timestamps of the production points
PointTimes == [k \in 1..Len(production_schedule) |-> production_schedule[k].ts]

\* C25: on an hourly production schedule the solar energy an item is credited
\* with (cost_savings / 0.12) is the sum of what it takes in the hours of its
\* window, and in every hour the items together take at most
\* max(0, production - base_load)
SolarCountedOnce ==
    HourlySpaced =>
        /\ \A m \in 1..Len(schedule) :
              FDiv(schedule[m].cost_savings, Frac(12, 100))
                 = FInt(SumTo([k \in 1..Len(production_schedule) |->
                                 SolarTaken(m, PointTimes[k])],
                              Len(production_schedule)))
        /\ \A k \in 1..Len(production_schedule) :
              SumTo([m \in 1..Len(schedule) |-> SolarTaken(m, PointTimes[k])],
                    Len(schedule))
                 <= Max(0, production_schedule[k].out - 2)

\* two items run in one hour of 9 kW production: the first takes 6 kW of the
\* 7 kW above the base load, the second gets the 1 kW that is left
SolarCountedOnceWitness ==
    /\ Returned
    /\ HourlySpaced
    /\ Len(schedule) = 2
    /\ schedule[1].start_time = schedule[2].start_time
    /\ ProductionAt(schedule[1].start_time) = 9
    /\ SolarTaken(1, schedule[1].start_time) = 6
    /\ SolarTaken(2, schedule[1].start_time) = 1
    /\ schedule[2].cost_savings = Frac(12, 100)

-----------------------------------------------------------------------------
(* Properties of the completeness of the placement *)

\* C26: an appliance that has a feasible window when it is attempted is
\* placed, and an attempt places nothing only if no window is feasible
PlacementIsComplete ==
    [][InAttempt =>
          LET a == sorted_appliances[idx]
          IN /\ FeasibleStarts(a) # {} =>
                   /\ Len(schedule') = Len(schedule) + 1
                   /\ schedule'[Len(schedule')].appliance = a
             /\ Len(schedule') = Len(schedule) => FeasibleStarts(a) = {}]_vars

-----------------------------------------------------------------------------
(* Properties of the order among equal keys *)

\* C27: appliances of equal priority and equal flexibility are attempted in
\* the order of the input list, and so are their items in the schedule
EqualKeysKeepListOrder ==
    pc # "idle" =>
        /\ \A i, j \in 1..Len(appliances) :
              (/\ i < j
               /\ appliances[i].priority = appliances[j].priority
               /\ appliances[i].flexibility = appliances[j].flexibility)
                 => AttemptPosition(appliances[i]) < AttemptPosition(appliances[j])
        /\ \A k, m \in 1..Len(schedule) :
              (/\ k < m
               /\ schedule[k].appliance.priority = schedule[m].appliance.priority
               /\ schedule[k].appliance.flexibility
                     = schedule[m].appliance.flexibility)
                 => schedule[k].appliance.name < schedule[m].appliance.name

\* two appliances of one key and of different power that share the one hour
\* of high production: the first of the list is covered fully, the second
\* gets what is left
EqualKeysKeepListOrderWitness ==
    /\ Returned
    /\ Len(appliances) = 2
    /\ Len(schedule) = 2
    /\ appliances[1].priority = appliances[2].priority
    /\ appliances[1].flexibility = appliances[2].flexibility
    /\ appliances[1].power_rating # appliances[2].power_rating
    /\ schedule[1].appliance = appliances[1]
    /\ schedule[2].start_time = schedule[1].start_time
    /\ schedule[1].solar_coverage = FInt(1)
    /\ FLess(schedule[2].solar_coverage, FInt(1))

-----------------------------------------------------------------------------
(* Properties of the totals of the summary *)

\* C28: the summary of a returned schedule has solar_energy + grid_energy =
\* total_energy and 0 <= solar_percentage <= 100, for integer and for
\* fractional durations
SummaryEnergyBalance ==
    Summarized =>
        /\ FAdd(summary.solar_energy, summary.grid_energy) = summary.total_energy
        /\ FLeq(FInt(0), summary.solar_percentage)
        /\ FLeq(summary.solar_percentage, FInt(100))

-----------------------------------------------------------------------------
(* Properties of a schedule on quarter-hourly production points *)

\* the production schedule has one point per quarter of an hour
QuarterHourlySpaced ==
    /\ Len(production_schedule) >= 2
    /\ \A k \in 1..(Len(production_schedule) - 1) :
          production_schedule[k + 1].ts = production_schedule[k].ts + 15

\* C29: on a production schedule spaced 15 minutes apart, the items that run
\* at any one instant still draw at most 10 kW together (stated for
\* appliances that are each within 10 kW, so that only items that start at
\* different quarter-hours can add up to more)
QuarterHourlyCapacityRespected ==
    (/\ Returned
     /\ QuarterHourlySpaced
     /\ \A it \in Items : it.appliance.power_rating <= SlotCapacity)
        => \A t \in Instants : PowerSum(Covering(t)) <= SlotCapacity

-----------------------------------------------------------------------------
(* Properties of the appliance editor *)

EditorList == optimizer_config.appliances

\* no two entries of the configured list have one name
EditorNamesDistinct ==
    \A i, j \in 1..Len(EditorList) :
        EditorList[i].name = EditorList[j].name => i = j

\* the list after the step is the list before it with entry i replaced by new
ReplacedInPlace(old, now, i, new) ==
    /\ Len(now) = Len(old)
    /\ \A j \in 1..Len(old) : now[j] = IF j = i THEN new ELSE old[j]

\* the list after the step is the list before it and new behind it
AppendedOne(old, now, new) ==
    /\ Len(now) = Len(old) + 1
    /\ now[Len(now)] = new
    /\ \A j \in 1..Len(old) : now[j] = old[j]

\* the list after the step is the list before it without entry i
DeletedExactly(old, now, i) ==
    /\ Len(now) = Len(old) - 1
    /\ \A j \in 1..(i - 1) : now[j] = old[j]
    /\ \A j \in i..Len(now) : now[j] = old[j + 1]

\* C30: through every sequence of Add/Update and Remove from the list the
\* session starts with, the names of the configured list stay pairwise
\* distinct; submitting a name of the list replaces that entry in place,
\* submitting another name appends one entry, and Remove deletes exactly the
\* entry chosen
EditorKeepsNamesDistinct ==
    /\ []EditorNamesDistinct
    /\ [][/\ \A new \in NewAppliances :
               SubmitAppliance(new) =>
                   IF \E i \in 1..Len(EditorList) : EditorList[i].name = new.name
                   THEN \E i \in 1..Len(EditorList) :
                            /\ EditorList[i].name = new.name
                            /\ ReplacedInPlace(EditorList, EditorList', i, new)
                   ELSE AppendedOne(EditorList, EditorList', new)
          /\ \A i \in 1..Len(EditorList) :
               PopAppliance(i) => DeletedExactly(EditorList, EditorList', i)]_vars

\* the Dishwasher removed, the Dryer submitted again with 1.0 kW and still
\* second of the entries the session started with, a new name appended
EditorKeepsNamesDistinctWitness ==
    /\ Len(EditorList) = 4
    /\ EditorList[1] = DefaultAppliances[2]
    /\ EditorList[2] = EditorAppliance("Dryer", 10, 10, 5, "medium")
    /\ EditorList[3] = DefaultAppliances[4]
    /\ EditorList[4] = EditorAppliance("New Appliance", 30, 10, 5, "medium")

=============================================================================
